---- MODULE Spec2Model ----
(***************************************************************************)
(* State-machine model of the UFC fantasy league server (server.js): the   *)
(* league, membership and pick tables, the connection pool, and the        *)
(* request handlers that read and write them.  Every `await` of a handler  *)
(* is one step, so concurrent requests interleave between statements, as   *)
(* they do on the Node.js event loop with a shared MySQL pool.             *)
(***************************************************************************)
EXTENDS Integers, Sequences, FiniteSets, Bags, TLC

VARIABLES
    league,        \* table league: set of rows [LeagueID, OwnerID, LeagueCode]
    membership,    \* table membership: bag of rows [UserID, LeagueID, Role]
    pick,          \* table pick: bag of rows [UserID, LeagueID, EventID, FighterID, PointsEarned]
    nextLeagueId,  \* AUTO_INCREMENT counter of league.LeagueID
    checkedOut,    \* connections of the pool that are checked out and not released
    req,           \* per request slot: the handler running in it, its arguments and locals
    calls,         \* requests and gradings admitted so far: in total and of each kind
    budget,        \* requests and gradings the run admits (never changes)
    fight          \* table fight: set of rows [fight_id, event_id, red_fighter_id,
                   \* blue_fighter_id, winner_id, method] (no handler writes it)

vars == <<league, membership, pick, nextLeagueId, checkedOut, req, calls, budget, fight>>

(***************************************************************************)
(* Bounds of the model.                                                    *)
(***************************************************************************)
MaxCalls == 2       \* requests and gradings admitted in a run
MaxSeasonCalls == 4 \* the same, in a run that admits MaxOfAKind of each kind
MaxOfAKind == 1
MaxRaceCalls == 3   \* requests in a run of create-, join-, delete-league and save-picks
MaxResubmitCalls == 4 \* requests and gradings in a run of resubmissions
MaxResubmits == 2     \* requests of one kind, and gradings, in such a run
MaxWaiting == 1     \* requests admitted beyond connectionLimit in a run against the pool
MaxLookups == 1     \* lookup requests admitted in a run of the lookup handlers

(***************************************************************************)
(* Program constants.                                                      *)
(***************************************************************************)
connectionLimit == 10

(***************************************************************************)
(* Fixed reference data (tables user, event, fighter are read-only here).  *)
(* Identifiers are positive; 0 stands for a missing / falsy request field. *)
(* A fighter id arrives as a string, modelled as a sequence of characters. *)
(***************************************************************************)
Slots == {1, 2}
Users == {1, 2}
LeagueIds == {1, 2}
PointValues == {0, 1}
Events == {1, 2}
Codes == {"AAA", "BBB"}
NoId == 0

\* The (user, league, event) scopes save-picks is called with: one scope and the
\* three that differ from it in exactly one component.
Scopes == { <<1, 1, 1>>, <<2, 1, 1>>, <<1, 2, 1>>, <<1, 1, 2>> }

\* user.Username, unique per user; UsernameRank is its position in collation order.
Username(u) == IF u = 1 THEN "zed" ELSE "amy"
UsernameRank(u) == IF u = 1 THEN 2 ELSE 1

\* Request bodies the model submits as `picks`: each element is a selection's fighterId
\* (<<>> is a selection without fighterId, or with an empty one).
PickLists ==
    { <<>>,
      << <<"a">> >>,
      << <<"a">>, <<"b">> >>,
      << <<" ", "a">> >>,
      << <<>>, <<"b">> >>,
      << <<>> >> }

(***************************************************************************)
(* Tables fighter, event and fight.  A fighter id and a fighter name are   *)
(* strings, modelled as sequences of characters.  Null is a NULL id column  *)
(* and NoMethod a NULL method column: JavaScript reads both as null, which *)
(* is falsy and equal to no string.                                        *)
(***************************************************************************)
Null == <<>>
NoMethod == ""

fighter ==
    { [fighter_id |-> <<"a">>, name |-> <<"j", "o">>],
      [fighter_id |-> <<"b">>, name |-> <<"j", "i">>],
      [fighter_id |-> <<"c">>, name |-> <<"k", "o">>] }

FighterIds == {f.fighter_id : f \in fighter}

\* event.event_name and event.date of the event with this event_id.
EventName(e) == IF e = 1 THEN "UFC 1" ELSE "UFC 2"
EventDate(e) == e

Methods == {"KO", "Draw", "No Contest"}

FightRow(id, e, red, blue, winner, method) ==
    [fight_id |-> id, event_id |-> e, red_fighter_id |-> red, blue_fighter_id |-> blue,
     winner_id |-> winner, method |-> method]

\* The fight card the league handlers run against: one undecided fight per event.
ReferenceFights ==
    { FightRow(1, 1, <<"a">>, <<"b">>, Null, NoMethod),
      FightRow(2, 2, <<"c">>, <<"b">>, Null, NoMethod) }

(***************************************************************************)
(* Conversions of save-picks.                                              *)
(***************************************************************************)
IsSpace(c) == c = " "

\* String.prototype.trim on a string given as a sequence of characters.
RECURSIVE TrimLeft(_)
TrimLeft(str) ==
    IF str # <<>> /\ IsSpace(Head(str)) THEN TrimLeft(Tail(str)) ELSE str

RECURSIVE TrimRight(_)
TrimRight(str) ==
    IF str # <<>> /\ IsSpace(str[Len(str)])
    THEN TrimRight(SubSeq(str, 1, Len(str) - 1))
    ELSE str

\* const strFighterId = String(pick.fighterId).trim();
strFighterId(fighterId) == TrimRight(TrimLeft(fighterId))

\* Variant: every selection is taken to carry a fighterId.
Truthy_Always(fighterId) == TRUE

\* if (pick.fighterId): a missing or empty fighterId is falsy.
Truthy(fighterId) == fighterId # <<>>

(***************************************************************************)
(* SQL statements on the pick table.                                       *)
(***************************************************************************)
PickRow(u, l, e, f, pts) ==
    [UserID |-> u, LeagueID |-> l, EventID |-> e, FighterID |-> f, PointsEarned |-> pts]

InScope(row, u, l, e) == row.UserID = u /\ row.LeagueID = l /\ row.EventID = e

\* The rows of bag b that satisfy Keep(row), with their multiplicities.
BagFilter(b, Keep(_)) == [row \in {x \in DOMAIN b : Keep(x)} |-> b[row]]

\* Variant: the delete phase is left out, so resubmissions accumulate.
DeletePicks_Skipped(p, u, l, e) == p

\* Variant: the WHERE clause lacks the EventID condition.
DeletePicks_AnyEvent(p, u, l, e) ==
    BagFilter(p, LAMBDA row : ~(row.UserID = u /\ row.LeagueID = l))

\* DELETE FROM Pick WHERE UserID = ? AND LeagueID = ? AND EventID = ?
DeletePicks(p, u, l, e) == BagFilter(p, LAMBDA row : ~InScope(row, u, l, e))

\* Variant: the row is inserted with a point.
InsertPick_Graded(p, u, l, e, f) == p (+) SetToBag({PickRow(u, l, e, f, 1)})

\* Variant: the insert replaces the rows of the scope.
InsertPick_Replacing(p, u, l, e, f) ==
    BagFilter(p, LAMBDA row : ~InScope(row, u, l, e)) (+) SetToBag({PickRow(u, l, e, f, 0)})

\* INSERT INTO Pick (UserID, LeagueID, EventID, FighterID, PointsEarned) VALUES (?, ?, ?, ?, 0)
InsertPick(p, u, l, e, f) == p (+) SetToBag({PickRow(u, l, e, f, 0)})

(***************************************************************************)
(* Request slots.                                                          *)
(***************************************************************************)
NoReq ==
    [op |-> "none", pc |-> "done", resp |-> "none",
     userId |-> NoId, leagueId |-> NoId, eventId |-> NoId,
     hasPicks |-> FALSE, picks |-> <<>>, code |-> "",
     idx |-> 0, savedCount |-> 0, errorCount |-> 0,
     foundLeague |-> NoId, affectedRows |-> 0, picksCount |-> 0,
     name |-> <<>>, fighters |-> {}, fights |-> {}, data |-> <<>>, message |-> "",
     deleteSeq |-> 0]

Kinds ==
    {"savePicks", "leaderboard", "createLeague", "joinLeague", "deleteLeague", "grade",
     "fighterHistory", "eventFights", "leagueMembers"}

NoCalls == [total |-> 0, of |-> [k \in Kinds |-> 0]]

\* The run admits one more request (or grading) of this kind.
Allowed(kind) == calls.total < budget.total /\ calls.of[kind] < budget.each

\* The count of each kind is kept only in runs that bound it.
Counted(kind) ==
    [total |-> calls.total + 1,
     of |-> IF budget.each < budget.total THEN [calls.of EXCEPT ![kind] = @ + 1] ELSE calls.of]

Idle(s, kind) == req[s].pc = "done" /\ Allowed(kind)

\* The slot of a request of handler op that has been answered with response r: the
\* request's arguments and locals are gone with it.
Answered(op, r) == [NoReq EXCEPT !.resp = r, !.op = op]

\* A handler returns with response r before it has acquired a connection.
Reject(s, kind, r) ==
    /\ req' = [req EXCEPT ![s] = Answered(kind, r)]
    /\ calls' = Counted(kind)

\* A handler passes its validation and awaits pool.getConnection().
Admit(s, call) ==
    /\ req' = [req EXCEPT ![s] = [call EXCEPT !.pc = "acquire"]]
    /\ calls' = Counted(call.op)

Init ==
    /\ league = {}
    /\ membership = EmptyBag
    /\ pick = EmptyBag
    /\ nextLeagueId = 1
    /\ checkedOut = 0
    /\ req = [s \in Slots |-> NoReq]
    /\ calls = NoCalls
    /\ budget = [total |-> MaxCalls, each |-> MaxCalls]
    /\ fight = ReferenceFights

(***************************************************************************)
(* The pool: pool.getConnection() and connection.release().                *)
(***************************************************************************)
FirstStatement(op) ==
    CASE op = "savePicks" -> "deletePicks"
      [] op = "leaderboard" -> "query"
      [] op = "createLeague" -> "insertLeague"
      [] op = "joinLeague" -> "findLeague"
      [] op = "deleteLeague" -> "countMembers"
      [] op = "fighterHistory" -> "findFighters"
      [] op = "eventFights" -> "selectFights"
      [] op = "leagueMembers" -> "membersQuery"

\* await pool.getConnection(): waits while all connectionLimit connections are out.
Acquire(s) ==
    /\ req[s].pc = "acquire"
    /\ checkedOut < connectionLimit
    /\ checkedOut' = checkedOut + 1
    /\ req' = [req EXCEPT ![s].pc = FirstStatement(req[s].op)]
    /\ UNCHANGED <<league, membership, pick, nextLeagueId, calls, budget, fight>>

\* connection.release() followed by the response r.
ReleaseAndRespond(s, r) ==
    /\ checkedOut' = checkedOut - 1
    /\ req' = [req EXCEPT ![s] = Answered(req[s].op, r)]

(***************************************************************************)
(* POST /api/save-picks                                                    *)
(***************************************************************************)
\* if (!userId || !leagueId || !eventId || !picks)
MissingRequired(userId, leagueId, eventId, hasPicks) ==
    userId = NoId \/ leagueId = NoId \/ eventId = NoId \/ ~hasPicks

SavePicksStart(s) ==
    \E u \in Users \cup {NoId}, l \in LeagueIds, e \in Events,
       hp \in BOOLEAN, pl \in PickLists :
        /\ Idle(s, "savePicks")
        /\ u = NoId \/ <<u, l, e>> \in Scopes
        /\ IF MissingRequired(u, l, e, hp)
           THEN Reject(s, "savePicks", "MissingData")
           ELSE Admit(s, [NoReq EXCEPT !.op = "savePicks", !.userId = u, !.leagueId = l,
                                       !.eventId = e, !.hasPicks = hp, !.picks = pl])
        /\ UNCHANGED <<league, membership, pick, nextLeagueId, checkedOut, budget, fight>>

\* The calls in flight for the same (user, league, event) whose DELETE has already run.
EarlierDeletes(s) ==
    {t \in Slots \ {s} : /\ req[t].op = "savePicks" /\ req[t].pc = "insertLoop"
                         /\ req[t].userId = req[s].userId
                         /\ req[t].leagueId = req[s].leagueId
                         /\ req[t].eventId = req[s].eventId}

\* await connection.execute('DELETE FROM Pick WHERE ...') succeeds.  deleteSeq records
\* the position of this DELETE among those of the calls in flight for the same scope.
SavePicksDelete(s) ==
    /\ req[s].pc = "deletePicks"
    /\ pick' = DeletePicks(pick, req[s].userId, req[s].leagueId, req[s].eventId)
    /\ req' = [req EXCEPT ![s].pc = "insertLoop", ![s].idx = 1,
                          ![s].savedCount = 0, ![s].errorCount = 0,
                          ![s].deleteSeq = Cardinality(EarlierDeletes(s)) + 1,
                          ![s].affectedRows = BagCardinality(pick) - BagCardinality(pick')]
    /\ UNCHANGED <<league, membership, nextLeagueId, checkedOut, calls, budget, fight>>

\* Variant: the first failed insertion ends the loop.
SavePicksInsert_AbortOnFailure(s) ==
    /\ req[s].pc = "insertLoop"
    /\ req[s].idx <= Len(req[s].picks)
    /\ LET fighterId == req[s].picks[req[s].idx]
       IN  IF Truthy(fighterId)
           THEN \E ok \in BOOLEAN :
                  IF ok
                  THEN /\ pick' = InsertPick(pick, req[s].userId, req[s].leagueId,
                                             req[s].eventId, strFighterId(fighterId))
                       /\ req' = [req EXCEPT ![s].idx = @ + 1, ![s].savedCount = @ + 1]
                  ELSE /\ pick' = pick
                       /\ req' = [req EXCEPT ![s].idx = Len(req[s].picks) + 1,
                                             ![s].errorCount = @ + 1]
           ELSE /\ pick' = pick
                /\ req' = [req EXCEPT ![s].idx = @ + 1]
    /\ UNCHANGED <<league, membership, nextLeagueId, checkedOut, calls, budget, fight>>

\* One iteration of `for (const pick of picks)`: the INSERT succeeds (ok) or throws
\* into the inner catch; a selection without fighterId is skipped.
SavePicksInsert(s) ==
    /\ req[s].pc = "insertLoop"
    /\ req[s].idx <= Len(req[s].picks)
    /\ LET fighterId == req[s].picks[req[s].idx]
       IN  IF Truthy(fighterId)
           THEN \E ok \in BOOLEAN :
                  IF ok
                  THEN /\ pick' = InsertPick(pick, req[s].userId, req[s].leagueId,
                                             req[s].eventId, strFighterId(fighterId))
                       /\ req' = [req EXCEPT ![s].idx = @ + 1, ![s].savedCount = @ + 1]
                  ELSE /\ pick' = pick
                       /\ req' = [req EXCEPT ![s].idx = @ + 1, ![s].errorCount = @ + 1]
           ELSE /\ pick' = pick
                /\ req' = [req EXCEPT ![s].idx = @ + 1]
    /\ UNCHANGED <<league, membership, nextLeagueId, checkedOut, calls, budget, fight>>

\* Variant: any failed insertion fails the call.
AllPicksFailed_AnyError(savedCount, errorCount) == errorCount > 0

\* if (savedCount === 0 && errorCount > 0)
AllPicksFailed(savedCount, errorCount) == savedCount = 0 /\ errorCount > 0

\* res.json({ success: true, message: ..., picksCount: savedCount })
SavePicksSuccess(savedCount) == [Answered("savePicks", "Success") EXCEPT !.picksCount = savedCount]

\* After the loop: connection.release(), then the 500 or the success response.
SavePicksFinish(s) ==
    /\ req[s].pc = "insertLoop"
    /\ req[s].idx > Len(req[s].picks)
    /\ checkedOut' = checkedOut - 1
    /\ req' = [req EXCEPT ![s] =
                 IF AllPicksFailed(req[s].savedCount, req[s].errorCount)
                 THEN Answered("savePicks", "AllPicksFailed")
                 ELSE SavePicksSuccess(req[s].savedCount)]
    /\ UNCHANGED <<league, membership, pick, nextLeagueId, calls, budget, fight>>

(***************************************************************************)
(* GET /api/leaderboard/:leagueId                                          *)
(***************************************************************************)
MemberRow(u, l, role) == [UserID |-> u, LeagueID |-> l, Role |-> role]

RECURSIVE SumPoints(_)
\* SUM(p.PointsEarned) over the rows of a bag of pick rows, each copy counted.
SumPoints(b) ==
    IF DOMAIN b = {} THEN 0
    ELSE LET row == CHOOSE x \in DOMAIN b : TRUE
         IN  b[row] * row.PointsEarned + SumPoints([x \in DOMAIN b \ {row} |-> b[x]])

\* FROM user u INNER JOIN membership m ON u.UserID = m.UserID ... WHERE m.LeagueID = ?
\* the membership rows of league l that join a user row, with their multiplicities.
JoinMembership(l) ==
    BagFilter(membership, LAMBDA m : m.LeagueID = l /\ m.UserID \in Users)

\* LEFT JOIN pick p ON u.UserID = p.UserID AND p.LeagueID = ?
\* the pick rows joined to user u (none: the single row of the left join has NULL p).
JoinPick(u, l) ==
    BagFilter(pick, LAMBDA p : p.UserID = u /\ p.LeagueID = l)

\* Variant: INNER JOIN pick instead of LEFT JOIN, so a user without picks has no row.
JoinedRowCount_InnerJoin(u, l) ==
    LET m == BagCardinality(BagFilter(JoinMembership(l), LAMBDA x : x.UserID = u))
        p == BagCardinality(JoinPick(u, l))
    IN  m * p

\* Number of joined rows of user u: one per (membership row, pick row or NULL).
JoinedRowCount(u, l) ==
    LET m == BagCardinality(BagFilter(JoinMembership(l), LAMBDA x : x.UserID = u))
        p == BagCardinality(JoinPick(u, l))
    IN  m * (IF p = 0 THEN 1 ELSE p)

\* COALESCE(SUM(p.PointsEarned), 0) over the joined rows of user u.
TotalPoints(u, l) ==
    LET m == BagCardinality(BagFilter(JoinMembership(l), LAMBDA x : x.UserID = u))
    IN  m * SumPoints(JoinPick(u, l))

\* GROUP BY u.UserID, u.Username, u.Email: one row per user with a joined row.
LeaderboardGroups(l) ==
    { [UserID |-> u, Username |-> Username(u), TotalPoints |-> TotalPoints(u, l)] :
        u \in {x \in Users : JoinedRowCount(x, l) > 0} }

\* Variant: ORDER BY u.Username ASC only.
OrderedBefore_ByUsername(a, b) == UsernameRank(a.UserID) < UsernameRank(b.UserID)

\* ORDER BY TotalPoints DESC, u.Username ASC
OrderedBefore(a, b) ==
    \/ a.TotalPoints > b.TotalPoints
    \/ a.TotalPoints = b.TotalPoints /\ UsernameRank(a.UserID) < UsernameRank(b.UserID)

\* The rows of a result set in the order of its ORDER BY clause.
OrderBy(rows) ==
    [i \in 1..Cardinality(rows) |->
        CHOOSE r \in rows : Cardinality({x \in rows : OrderedBefore(x, r)}) = i - 1]

\* data of the response: the result set of the leaderboard query.
Leaderboard(l) == OrderBy(LeaderboardGroups(l))

\* app.js, data.data.forEach((user, index) => ... `#${index + 1}`): the rank shown for
\* the row at this 0-based index.
Rank(index) == index + 1

LeaderboardStart(s) ==
    \E l \in LeagueIds :
        /\ Idle(s, "leaderboard")
        /\ Admit(s, [NoReq EXCEPT !.op = "leaderboard", !.leagueId = l])
        /\ UNCHANGED <<league, membership, pick, nextLeagueId, checkedOut, budget, fight>>

\* The query succeeds: connection.release(), res.json({success: true, data: results}).
LeaderboardQuery(s) ==
    /\ req[s].pc = "query"
    /\ ReleaseAndRespond(s, "Success")
    /\ UNCHANGED <<league, membership, pick, nextLeagueId, calls, budget, fight>>

(***************************************************************************)
(* GET /api/league-members/:leagueId                                       *)
(***************************************************************************)
\* FROM membership m INNER JOIN user u ... LEFT JOIN pick p ... WHERE m.LeagueID = ?
\* GROUP BY u.UserID, u.Username, u.Email, m.Role, m.JoinDate: one row per user, role
\* and join date with a joined row (the memberships of a run are of one date), its
\* TotalPoints summed over the joined rows of the group.
LeagueMembersGroups(l) ==
    { [UserID |-> m.UserID, Username |-> Username(m.UserID), Role |-> m.Role,
       TotalPoints |-> JoinMembership(l)[m] * SumPoints(JoinPick(m.UserID, l))] :
         m \in DOMAIN JoinMembership(l) }

\* ORDER BY TotalPoints DESC, u.Username ASC: the orders the result set can come in
\* (rows equal in both keys come in either order).
LeagueMembers(l) ==
    {seq \in [1..Cardinality(LeagueMembersGroups(l)) -> LeagueMembersGroups(l)] :
        /\ \A i, j \in DOMAIN seq : i # j => seq[i] # seq[j]
        /\ \A i, j \in DOMAIN seq : i < j => ~OrderedBefore(seq[j], seq[i])}

LeagueMembersStart(s) ==
    \E l \in LeagueIds :
        /\ Idle(s, "leagueMembers")
        /\ Admit(s, [NoReq EXCEPT !.op = "leagueMembers", !.leagueId = l])
        /\ UNCHANGED <<league, membership, pick, nextLeagueId, checkedOut, budget, fight>>

\* The query succeeds: connection.release(), res.json({ success: true, data: members }).
LeagueMembersQuery(s) ==
    /\ req[s].pc = "membersQuery"
    /\ ReleaseAndRespond(s, "Success")
    /\ UNCHANGED <<league, membership, pick, nextLeagueId, calls, budget, fight>>

(***************************************************************************)
(* POST /api/league/create                                                 *)
(***************************************************************************)
InFlightCreates ==
    Cardinality({s \in Slots : req[s].op = "createLeague"
                               /\ req[s].pc \in {"acquire", "insertLeague"}})

CreateLeagueStart(s) ==
    \E owner \in Users \cup {NoId}, code \in Codes :
        /\ Idle(s, "createLeague")
        /\ nextLeagueId + InFlightCreates \in LeagueIds
        /\ IF owner = NoId
           THEN Reject(s, "createLeague", "MissingData")
           ELSE Admit(s, [NoReq EXCEPT !.op = "createLeague", !.userId = owner, !.code = code])
        /\ UNCHANGED <<league, membership, pick, nextLeagueId, checkedOut, budget, fight>>

\* The league code is a unique key of table league (the handler's ER_DUP_ENTRY case).
CodeTaken(code) == \E row \in league : row.LeagueCode = code

\* INSERT INTO league (...) succeeds; result.insertId is the new LeagueID.
CreateLeagueInsert(s) ==
    /\ req[s].pc = "insertLeague"
    /\ ~CodeTaken(req[s].code)
    /\ league' = league \cup {[LeagueID |-> nextLeagueId, OwnerID |-> req[s].userId,
                               LeagueCode |-> req[s].code]}
    /\ nextLeagueId' = nextLeagueId + 1
    /\ req' = [req EXCEPT ![s].pc = "insertOwner", ![s].foundLeague = nextLeagueId]
    /\ UNCHANGED <<membership, pick, checkedOut, calls, budget, fight>>

\* INSERT INTO membership (UserID, LeagueID, JoinDate, Role) VALUES (?, ?, CURDATE(), ?)
InsertMembership(m, u, l, role) == m (+) SetToBag({MemberRow(u, l, role)})

\* The owner's membership insert succeeds; connection.release(); success response.
CreateLeagueOwner(s) ==
    /\ req[s].pc = "insertOwner"
    /\ membership' = InsertMembership(membership, req[s].userId, req[s].foundLeague, "Owner")
    /\ ReleaseAndRespond(s, "Success")
    /\ UNCHANGED <<league, pick, nextLeagueId, calls, budget, fight>>

(***************************************************************************)
(* POST /api/join-league                                                   *)
(***************************************************************************)
JoinLeagueStart(s) ==
    \E u \in Users \cup {NoId}, code \in Codes :
        /\ Idle(s, "joinLeague")
        /\ IF u = NoId
           THEN Reject(s, "joinLeague", "MissingData")
           ELSE Admit(s, [NoReq EXCEPT !.op = "joinLeague", !.userId = u, !.code = code])
        /\ UNCHANGED <<league, membership, pick, nextLeagueId, checkedOut, budget, fight>>

\* SELECT LeagueID, Name FROM league WHERE LeagueCode = ?
LeaguesByCode(code) == {row \in league : row.LeagueCode = code}

JoinLeagueFind(s) ==
    /\ req[s].pc = "findLeague"
    /\ IF LeaguesByCode(req[s].code) = {}
       THEN ReleaseAndRespond(s, "InvalidCode")
       ELSE \E row \in LeaguesByCode(req[s].code) :
              /\ req' = [req EXCEPT ![s].pc = "checkMember", ![s].foundLeague = row.LeagueID]
              /\ checkedOut' = checkedOut
    /\ UNCHANGED <<league, membership, pick, nextLeagueId, calls, budget, fight>>

\* SELECT * FROM membership WHERE UserID = ? AND LeagueID = ?
ExistingMembership(u, l) ==
    BagFilter(membership, LAMBDA m : m.UserID = u /\ m.LeagueID = l)

\* if (existing.length > 0)
AlreadyMember(u, l) == BagCardinality(ExistingMembership(u, l)) > 0

JoinLeagueCheck(s) ==
    /\ req[s].pc = "checkMember"
    /\ IF AlreadyMember(req[s].userId, req[s].foundLeague)
       THEN ReleaseAndRespond(s, "AlreadyMember")
       ELSE /\ req' = [req EXCEPT ![s].pc = "insertMember"]
            /\ checkedOut' = checkedOut
    /\ UNCHANGED <<league, membership, pick, nextLeagueId, calls, budget, fight>>

JoinLeagueInsert(s) ==
    /\ req[s].pc = "insertMember"
    /\ membership' = InsertMembership(membership, req[s].userId, req[s].foundLeague, "Member")
    /\ ReleaseAndRespond(s, "Success")
    /\ UNCHANGED <<league, pick, nextLeagueId, calls, budget, fight>>

(***************************************************************************)
(* DELETE /api/league/:leagueId                                            *)
(***************************************************************************)
DeleteLeagueStart(s) ==
    \E l \in LeagueIds :
        /\ Idle(s, "deleteLeague")
        /\ Admit(s, [NoReq EXCEPT !.op = "deleteLeague", !.leagueId = l])
        /\ UNCHANGED <<league, membership, pick, nextLeagueId, checkedOut, budget, fight>>

\* SELECT COUNT(*) as count FROM membership WHERE LeagueID = ?
CountMembers(l) == BagCardinality(BagFilter(membership, LAMBDA m : m.LeagueID = l))

\* Variant: the picks of the league are not counted.
CountPicks_Unchecked(l) == 0

\* SELECT COUNT(*) as count FROM pick WHERE LeagueID = ?
CountPicks(l) == BagCardinality(BagFilter(pick, LAMBDA p : p.LeagueID = l))

DeleteLeagueMembers(s) ==
    /\ req[s].pc = "countMembers"
    /\ IF CountMembers(req[s].leagueId) > 0
       THEN ReleaseAndRespond(s, "HasMembers")
       ELSE /\ req' = [req EXCEPT ![s].pc = "countPicks"]
            /\ checkedOut' = checkedOut
    /\ UNCHANGED <<league, membership, pick, nextLeagueId, calls, budget, fight>>

DeleteLeaguePicks(s) ==
    /\ req[s].pc = "countPicks"
    /\ IF CountPicks(req[s].leagueId) > 0
       THEN ReleaseAndRespond(s, "HasPicks")
       ELSE /\ req' = [req EXCEPT ![s].pc = "deleteLeague"]
            /\ checkedOut' = checkedOut
    /\ UNCHANGED <<league, membership, pick, nextLeagueId, calls, budget, fight>>

\* DELETE FROM league WHERE LeagueID = ?
DeleteLeagueRow(lg, l) == {row \in lg : row.LeagueID # l}

\* The DELETE succeeds; connection.release(); 404 when result.affectedRows === 0.
DeleteLeagueDelete(s) ==
    /\ req[s].pc = "deleteLeague"
    /\ league' = DeleteLeagueRow(league, req[s].leagueId)
    /\ ReleaseAndRespond(s, IF league' = league THEN "NotFound" ELSE "Success")
    /\ UNCHANGED <<membership, pick, nextLeagueId, calls, budget, fight>>

(***************************************************************************)
(* GET /api/fighter/history                                                *)
(***************************************************************************)
\* The values of req.query.name the model submits; <<>> is a missing or empty name.
NameQueries == { <<>>, <<"j">>, <<"i">>, <<"j", "o">>, <<"k", "o">>, <<"_", "i">>, <<"x">> }

RECURSIVE Like(_, _)
\* str LIKE pat: % matches any run of characters and _ any one character.
Like(str, pat) ==
    IF pat = <<>> THEN str = <<>>
    ELSE IF Head(pat) = "%"
         THEN Like(str, Tail(pat)) \/ (str # <<>> /\ Like(Tail(str), pat))
         ELSE /\ str # <<>>
              /\ Head(pat) = "_" \/ Head(pat) = Head(str)
              /\ Like(Tail(str), Tail(pat))

\* SELECT fighter_id, name FROM fighter WHERE name LIKE `%${fighterName}%`
FindFighters(fighterName) ==
    {f \in fighter : Like(f.name, <<"%">> \o fighterName \o <<"%">>)}

\* const fighterIds = fighters.map(f => f.fighter_id);
IdsOf(fighters) == {f.fighter_id : f \in fighters}

\* fighter.name of the fighter with this id (the joins on fa and fb, the fighterMap).
NameOf(id) == (CHOOSE f \in fighter : f.fighter_id = id).name

\* FROM fight f JOIN event e ... JOIN fighter fa ... JOIN fighter fb ...
\* WHERE f.red_fighter_id IN (ids) OR f.blue_fighter_id IN (ids)
QueryFights(fighterIds) ==
    {row \in fight : /\ row.event_id \in Events
                     /\ row.red_fighter_id \in FighterIds
                     /\ row.blue_fighter_id \in FighterIds
                     /\ row.red_fighter_id \in fighterIds \/ row.blue_fighter_id \in fighterIds}

\* The orders in which a statement without ORDER BY can return a set of rows.
Orderings(rows) ==
    {seq \in [1..Cardinality(rows) -> rows] :
        \A i, j \in 1..Cardinality(rows) : i # j => seq[i] # seq[j]}

\* ORDER BY e.date DESC
OrderByDateDesc(rows) ==
    {seq \in Orderings(rows) :
        \A i, j \in DOMAIN seq :
            i < j => EventDate(seq[i].event_id) >= EventDate(seq[j].event_id)}

\* Variant: the searched fighter is always taken to be the red corner.
ProcessFight_AlwaysRed(row, fighterIds) ==
    LET myId == row.red_fighter_id
    IN  [EventName |-> EventName(row.event_id),
         Opponent |-> NameOf(row.blue_fighter_id),
         Result |-> IF row.winner_id # Null
                    THEN (IF row.winner_id = myId THEN "Win" ELSE "Loss")
                    ELSE IF row.method = "Draw" \/ row.method = "No Contest"
                         THEN row.method ELSE "Pending",
         Method |-> row.method]

\* Variant: the opponent is always the blue corner.
ProcessFight_OpponentBlue(row, fighterIds) ==
    LET isFighterA == row.red_fighter_id \in fighterIds
        myId == IF isFighterA THEN row.red_fighter_id ELSE row.blue_fighter_id
    IN  [EventName |-> EventName(row.event_id),
         Opponent |-> NameOf(row.blue_fighter_id),
         Result |-> IF row.winner_id # Null
                    THEN (IF row.winner_id = myId THEN "Win" ELSE "Loss")
                    ELSE IF row.method = "Draw" \/ row.method = "No Contest"
                         THEN row.method ELSE "Pending",
         Method |-> row.method]

\* Variant: when both corners match, the record is relative to the blue corner.
ProcessFight_PreferBlue(row, fighterIds) ==
    LET isFighterA == row.blue_fighter_id \notin fighterIds
        myId == IF isFighterA THEN row.red_fighter_id ELSE row.blue_fighter_id
    IN  [EventName |-> EventName(row.event_id),
         Opponent |-> IF isFighterA THEN NameOf(row.blue_fighter_id)
                                    ELSE NameOf(row.red_fighter_id),
         Result |-> IF row.winner_id # Null
                    THEN (IF row.winner_id = myId THEN "Win" ELSE "Loss")
                    ELSE IF row.method = "Draw" \/ row.method = "No Contest"
                         THEN row.method ELSE "Pending",
         Method |-> row.method]

\* results.map(fight => ...): the record of one fight, relative to the searched fighter.
ProcessFight(row, fighterIds) ==
    LET isFighterA == row.red_fighter_id \in fighterIds
        myId == IF isFighterA THEN row.red_fighter_id ELSE row.blue_fighter_id
    IN  [EventName |-> EventName(row.event_id),
         Opponent |-> IF isFighterA THEN NameOf(row.blue_fighter_id)
                                    ELSE NameOf(row.red_fighter_id),
         Result |-> IF row.winner_id # Null
                    THEN (IF row.winner_id = myId THEN "Win" ELSE "Loss")
                    ELSE IF row.method = "Draw" \/ row.method = "No Contest"
                         THEN row.method ELSE "Pending",
         Method |-> row.method]

\* if (!fighterName) return res.status(400)...
FighterHistoryStart(s) ==
    \E q \in NameQueries :
        /\ Idle(s, "fighterHistory")
        /\ IF q = <<>>
           THEN Reject(s, "fighterHistory", "NameRequired")
           ELSE Admit(s, [NoReq EXCEPT !.op = "fighterHistory", !.name = q])
        /\ UNCHANGED <<league, membership, pick, nextLeagueId, checkedOut, budget, fight>>

\* The first query succeeds; with no match: connection.release() and
\* res.json({ success: true, data: [], message: 'No fighters found' }).
FighterHistoryFind(s) ==
    /\ req[s].pc = "findFighters"
    /\ LET fighters == FindFighters(req[s].name)
       IN  IF fighters = {}
           THEN /\ checkedOut' = checkedOut - 1
                /\ req' = [req EXCEPT ![s] = [Answered("fighterHistory", "Success")
                                                EXCEPT !.message = "No fighters found"]]
           ELSE /\ checkedOut' = checkedOut
                /\ req' = [req EXCEPT ![s].pc = "queryFights", ![s].fighters = fighters]
    /\ UNCHANGED <<league, membership, pick, nextLeagueId, calls, budget, fight>>

\* The second query succeeds; connection.release() and
\* res.json({ success: true, data: processedResults, fighters: fighters }).
FighterHistoryQuery(s) ==
    /\ req[s].pc = "queryFights"
    /\ \E results \in OrderByDateDesc(QueryFights(IdsOf(req[s].fighters))) :
         req' = [req EXCEPT ![s] =
                   [Answered("fighterHistory", "Success") EXCEPT
                      !.data = [i \in DOMAIN results |->
                                  ProcessFight(results[i], IdsOf(req[s].fighters))],
                      !.fighters = req[s].fighters]]
    /\ checkedOut' = checkedOut - 1
    /\ UNCHANGED <<league, membership, pick, nextLeagueId, calls, budget, fight>>

\* Variant: the client ignores the message of the response.
InfoMessage_Fixed(message) == "No fight history found for this fighter."

\* app.js: data.message || 'No fight history found for this fighter.'
InfoMessage(message) ==
    IF message # "" THEN message ELSE "No fight history found for this fighter."

(***************************************************************************)
(* GET /api/event/:eventId/fights                                          *)
(***************************************************************************)
\* A template literal `${prefix}suffix`, and a plain string literal.
Text(prefix, suffix) == <<prefix, suffix>>
Literal(str) == <<Null, str>>

Unknown == <<"U", "n", "k", "n", "o", "w", "n">>

\* fighterMap[id] || { name: 'Unknown', record: '' }, for the rows of SELECT * FROM fighter
FighterMapName(allFighters, id) ==
    IF \E f \in allFighters : f.fighter_id = id
    THEN (CHOOSE f \in allFighters : f.fighter_id = id).name
    ELSE Unknown

\* fights.map(row => ...): the view record of one fight.
MapFight(row, allFighters) ==
    LET idA == row.red_fighter_id
        idB == row.blue_fighter_id
        nameA == FighterMapName(allFighters, idA)
        nameB == FighterMapName(allFighters, idB)
    IN  [FightID |-> row.fight_id,
         FighterA_ID |-> idA, FighterB_ID |-> idB,
         FighterAName |-> nameA, FighterBName |-> nameB,
         Result |-> IF row.winner_id # Null
                    THEN (IF row.winner_id = idA THEN Text(nameA, " Win")
                          ELSE IF row.winner_id = idB THEN Text(nameB, " Win")
                          ELSE Literal("Draw/No Contest"))
                    ELSE Literal("Pending"),
         Method |-> IF row.method # NoMethod THEN row.method ELSE "-"]

EventFightsStart(s) ==
    \E e \in Events :
        /\ Idle(s, "eventFights")
        /\ Admit(s, [NoReq EXCEPT !.op = "eventFights", !.eventId = e])
        /\ UNCHANGED <<league, membership, pick, nextLeagueId, checkedOut, budget, fight>>

\* SELECT * FROM fight WHERE event_id = ?
EventFightsSelect(s) ==
    /\ req[s].pc = "selectFights"
    /\ req' = [req EXCEPT ![s].pc = "selectFighters",
                          ![s].fights = {row \in fight : row.event_id = req[s].eventId}]
    /\ UNCHANGED <<league, membership, pick, nextLeagueId, checkedOut, calls, budget, fight>>

\* SELECT * FROM fighter succeeds; connection.release(); the fights are mapped and sent.
EventFightsRespond(s) ==
    /\ req[s].pc = "selectFighters"
    /\ \E fights \in Orderings(req[s].fights) :
         req' = [req EXCEPT ![s] =
                   [Answered("eventFights", "Success") EXCEPT
                      !.data = [i \in DOMAIN fights |-> MapFight(fights[i], fighter)]]]
    /\ checkedOut' = checkedOut - 1
    /\ UNCHANGED <<league, membership, pick, nextLeagueId, calls, budget, fight>>

(***************************************************************************)
(* A statement inside the handler's outer try throws: the catch block      *)
(* answers with an error and the connection is not released.               *)
(***************************************************************************)
ThrowingStatements ==
    {"deletePicks", "query", "insertLeague", "insertOwner", "findLeague",
     "checkMember", "insertMember", "countMembers", "countPicks", "deleteLeague",
     "findFighters", "queryFights", "selectFights", "selectFighters", "membersQuery"}

\* The response the catch block of handler op gives for error code err.
CatchResponse(op, err) ==
    CASE op = "createLeague" /\ err = "ER_NO_REFERENCED_ROW_2" -> "OwnerMissing"
      [] op = "createLeague" /\ err = "ER_DUP_ENTRY" -> "CodeExists"
      [] op = "deleteLeague" /\ err \in {"ER_ROW_IS_REFERENCED_2", "ER_NO_REFERENCED_ROW_2"}
            -> "HasAssociated"
      [] OTHER -> "Error500"

\* The error codes the statement at pc can fail with.
ErrorsAt(s) ==
    CASE req[s].pc = "insertLeague" ->
            IF CodeTaken(req[s].code) THEN {"ER_DUP_ENTRY"} ELSE {"OTHER"}
      [] req[s].pc = "deleteLeague" -> {"ER_ROW_IS_REFERENCED_2", "OTHER"}
      [] OTHER -> {"OTHER"}

Throw(s) ==
    /\ req[s].pc \in ThrowingStatements
    /\ \E err \in ErrorsAt(s) :
         req' = [req EXCEPT ![s] = Answered(req[s].op, CatchResponse(req[s].op, err))]
    /\ UNCHANGED <<league, membership, pick, nextLeagueId, checkedOut, calls, budget, fight>>

\* pool.getConnection() itself rejects: the catch block answers, nothing is held.
AcquireFails(s) ==
    /\ req[s].pc = "acquire"
    /\ req' = [req EXCEPT ![s] = Answered(req[s].op, "Error500")]
    /\ UNCHANGED <<league, membership, pick, nextLeagueId, checkedOut, calls, budget, fight>>

(***************************************************************************)
(* The external grading process: sets PointsEarned of one stored pick.     *)
(***************************************************************************)
Grade ==
    \E row \in DOMAIN pick, pts \in PointValues :
        /\ Allowed("grade")
        /\ pts # row.PointsEarned
        /\ pick' = (pick (-) SetToBag({row})) (+) SetToBag({[row EXCEPT !.PointsEarned = pts]})
        /\ calls' = Counted("grade")
        /\ UNCHANGED <<league, membership, nextLeagueId, checkedOut, req, budget, fight>>

(***************************************************************************)
(* Specification: requests of all handlers interleave at their awaits.     *)
(***************************************************************************)
Step(s) ==
    \/ SavePicksStart(s)
    \/ SavePicksDelete(s)
    \/ SavePicksInsert(s)
    \/ SavePicksFinish(s)
    \/ LeaderboardStart(s)
    \/ LeaderboardQuery(s)
    \/ CreateLeagueStart(s)
    \/ CreateLeagueInsert(s)
    \/ CreateLeagueOwner(s)
    \/ JoinLeagueStart(s)
    \/ JoinLeagueFind(s)
    \/ JoinLeagueCheck(s)
    \/ JoinLeagueInsert(s)
    \/ DeleteLeagueStart(s)
    \/ DeleteLeagueMembers(s)
    \/ DeleteLeaguePicks(s)
    \/ DeleteLeagueDelete(s)
    \/ LeagueMembersStart(s)
    \/ LeagueMembersQuery(s)
    \/ Acquire(s)
    \/ AcquireFails(s)
    \/ Throw(s)

Next == (\E s \in Slots : Step(s)) \/ Grade

Spec == Init /\ [][Next]_vars

(***************************************************************************)
(* Specification of runs in which requests do not overlap: a request is    *)
(* admitted, and the grader runs, only while no other request is in flight.*)
(***************************************************************************)
NoneInFlightBut(s) == \A t \in Slots \ {s} : req[t].pc = "done"

SeqNext ==
    \/ \E s \in Slots : NoneInFlightBut(s) /\ Step(s)
    \/ (\A s \in Slots : req[s].pc = "done") /\ Grade

SeqSpec == Init /\ [][SeqNext]_vars

(***************************************************************************)
(* Specification of a season: at most MaxOfAKind create-league, join-      *)
(* league and save-picks requests and gradings, overlapping freely.        *)
(***************************************************************************)
SeasonInit ==
    /\ league = {}
    /\ membership = EmptyBag
    /\ pick = EmptyBag
    /\ nextLeagueId = 1
    /\ checkedOut = 0
    /\ req = [s \in Slots |-> NoReq]
    /\ calls = NoCalls
    /\ budget = [total |-> MaxSeasonCalls, each |-> MaxOfAKind]
    /\ fight = ReferenceFights

SeasonStep(s) ==
    \/ SavePicksStart(s)
    \/ SavePicksDelete(s)
    \/ SavePicksInsert(s)
    \/ SavePicksFinish(s)
    \/ CreateLeagueStart(s)
    \/ CreateLeagueInsert(s)
    \/ CreateLeagueOwner(s)
    \/ JoinLeagueStart(s)
    \/ JoinLeagueFind(s)
    \/ JoinLeagueCheck(s)
    \/ JoinLeagueInsert(s)
    \/ Acquire(s)
    \/ AcquireFails(s)
    \/ Throw(s)

SeasonNext == (\E s \in Slots : SeasonStep(s)) \/ Grade

SeasonSpec == SeasonInit /\ [][SeasonNext]_vars

(***************************************************************************)
(* Specification of the league's life: at most MaxOfAKind create-league,   *)
(* join-league, delete-league and save-picks requests, MaxRaceCalls in     *)
(* all, overlapping freely.                                                *)
(***************************************************************************)
RaceInit ==
    /\ league = {}
    /\ membership = EmptyBag
    /\ pick = EmptyBag
    /\ nextLeagueId = 1
    /\ checkedOut = 0
    /\ req = [s \in Slots |-> NoReq]
    /\ calls = NoCalls
    /\ budget = [total |-> MaxRaceCalls, each |-> MaxOfAKind]
    /\ fight = ReferenceFights

RaceStep(s) ==
    \/ SavePicksStart(s)
    \/ SavePicksDelete(s)
    \/ SavePicksInsert(s)
    \/ SavePicksFinish(s)
    \/ CreateLeagueStart(s)
    \/ CreateLeagueInsert(s)
    \/ CreateLeagueOwner(s)
    \/ JoinLeagueStart(s)
    \/ JoinLeagueFind(s)
    \/ JoinLeagueCheck(s)
    \/ JoinLeagueInsert(s)
    \/ DeleteLeagueStart(s)
    \/ DeleteLeagueMembers(s)
    \/ DeleteLeaguePicks(s)
    \/ DeleteLeagueDelete(s)
    \/ Acquire(s)
    \/ AcquireFails(s)
    \/ Throw(s)

RaceNext == \E s \in Slots : RaceStep(s)

RaceSpec == RaceInit /\ [][RaceNext]_vars

(***************************************************************************)
(* Specification of resubmissions: create-league and save-picks requests,  *)
(* one at a time, and gradings between them, at most MaxResubmits of each. *)
(***************************************************************************)
ResubmitInit ==
    /\ league = {}
    /\ membership = EmptyBag
    /\ pick = EmptyBag
    /\ nextLeagueId = 1
    /\ checkedOut = 0
    /\ req = [s \in Slots |-> NoReq]
    /\ calls = NoCalls
    /\ budget = [total |-> MaxResubmitCalls, each |-> MaxResubmits]
    /\ fight = ReferenceFights

ResubmitStep(s) ==
    \/ SavePicksStart(s)
    \/ SavePicksDelete(s)
    \/ SavePicksInsert(s)
    \/ SavePicksFinish(s)
    \/ CreateLeagueStart(s)
    \/ CreateLeagueInsert(s)
    \/ CreateLeagueOwner(s)
    \/ Acquire(s)
    \/ AcquireFails(s)
    \/ Throw(s)

ResubmitNext ==
    \/ \E s \in Slots : NoneInFlightBut(s) /\ ResubmitStep(s)
    \/ (\A s \in Slots : req[s].pc = "done") /\ Grade

ResubmitSpec == ResubmitInit /\ [][ResubmitNext]_vars

(***************************************************************************)
(* Specification of the lookup handlers: fighter history and event fights  *)
(* run against a fight table that is empty, holds one fight of any event,  *)
(* corners, winner and method, or is one of two cards of two fights.       *)
(***************************************************************************)
FightUniverse ==
    { FightRow(1, e, red, blue, winner, method) :
        e \in Events, red \in FighterIds, blue \in FighterIds,
        winner \in FighterIds \cup {Null}, method \in Methods \cup {NoMethod} }

\* A card on which one fighter is the red corner of one fight and the blue of another.
RematchFights ==
    { FightRow(1, 1, <<"a">>, <<"b">>, <<"a">>, "KO"),
      FightRow(2, 2, <<"c">>, <<"a">>, Null, "Draw") }

FightTables ==
    {{}} \cup {{row} : row \in {r \in FightUniverse : r.red_fighter_id # r.blue_fighter_id}}
         \cup {ReferenceFights, RematchFights}

LookupInit ==
    /\ league = {}
    /\ membership = EmptyBag
    /\ pick = EmptyBag
    /\ nextLeagueId = 1
    /\ checkedOut = 0
    /\ req = [s \in Slots |-> NoReq]
    /\ calls = NoCalls
    /\ budget = [total |-> MaxLookups, each |-> MaxLookups]
    /\ fight \in FightTables

LookupStep(s) ==
    \/ FighterHistoryStart(s)
    \/ FighterHistoryFind(s)
    \/ FighterHistoryQuery(s)
    \/ EventFightsStart(s)
    \/ EventFightsSelect(s)
    \/ EventFightsRespond(s)
    \/ Acquire(s)
    \/ AcquireFails(s)
    \/ Throw(s)

LookupNext == \E s \in Slots : LookupStep(s)

LookupSpec == LookupInit /\ [][LookupNext]_vars

(***************************************************************************)
(* Specification of the pool under load: connectionLimit + MaxWaiting      *)
(* leaderboard requests, two at a time.  A request that waits for a        *)
(* connection gets one when one is free, and a query that has started      *)
(* returns (weak fairness); nothing obliges a statement to fail.           *)
(***************************************************************************)
PoolInit ==
    /\ league = {}
    /\ membership = EmptyBag
    /\ pick = EmptyBag
    /\ nextLeagueId = 1
    /\ checkedOut = 0
    /\ req = [s \in Slots |-> NoReq]
    /\ calls = NoCalls
    /\ budget = [total |-> connectionLimit + MaxWaiting, each |-> connectionLimit + MaxWaiting]
    /\ fight = ReferenceFights

PoolStep(s) ==
    \/ LeaderboardStart(s)
    \/ LeaderboardQuery(s)
    \/ Acquire(s)
    \/ AcquireFails(s)
    \/ Throw(s)

PoolNext == \E s \in Slots : PoolStep(s)

PoolFairness == \A s \in Slots : WF_vars(Acquire(s)) /\ WF_vars(LeaderboardQuery(s))

PoolSpec == PoolInit /\ [][PoolNext]_vars /\ PoolFairness

(***************************************************************************)
(* Vocabulary of the properties.                                           *)
(***************************************************************************)
\* The fighter ids of a bag of pick rows, each with the number of rows naming it.
FighterBag(b) ==
    [f \in {row.FighterID : row \in DOMAIN b} |->
        BagCardinality(BagFilter(b, LAMBDA row : row.FighterID = f))]

\* The fighters stored in table p for the scope (u, l, e).
Stored(p, u, l, e) == FighterBag(BagFilter(p, LAMBDA row : InScope(row, u, l, e)))

\* The fighters a selection list names: the fighterId of every selection that has one.
Selected(pl) ==
    LET named == {i \in 1..Len(pl) : Truthy(pl[i])}
    IN  [f \in {strFighterId(pl[i]) : i \in named} |->
            Cardinality({i \in named : strFighterId(pl[i]) = f})]

SavingPicks(s) == req[s].op = "savePicks" /\ req[s].pc # "done"

\* The save-picks call in slot s has run its loop to the end and is about to answer.
LoopDone(s) ==
    SavingPicks(s) /\ req[s].pc = "insertLoop" /\ req[s].idx > Len(req[s].picks)

StoredFor(s) == Stored(pick, req[s].userId, req[s].leagueId, req[s].eventId)

(***************************************************************************)
(* C1. With requests one at a time, when a save-picks call has made all    *)
(* its insertions without a failure, the picks stored for its (user,       *)
(* league, event) are exactly the fighters its selections name: nothing of *)
(* an earlier call remains, also when the call names fewer fighters than   *)
(* the call before it.                                                     *)
(***************************************************************************)
C1_LatestSelectionsStored ==
    \A s \in Slots :
        LoopDone(s) /\ req[s].errorCount = 0 => StoredFor(s) = Selected(req[s].picks)

\* A resubmission naming one fighter has replaced two stored picks of its scope.
C1_Witness ==
    \E s \in Slots :
        /\ LoopDone(s) /\ req[s].errorCount = 0
        /\ req[s].affectedRows = 2
        /\ req[s].picks = << <<"a">> >>
        /\ StoredFor(s) = SetToBag({<<"a">>})

(***************************************************************************)
(* C2. A save-picks call with an empty selection list performs no write:   *)
(* the picks stored for its (user, league, event) stay stored.             *)
(***************************************************************************)
C2_EmptyListKeepsPicks ==
    [][\A s \in Slots :
          SavingPicks(s) /\ req[s].hasPicks /\ req[s].picks = <<>>
          => Stored(pick', req[s].userId, req[s].leagueId, req[s].eventId) = StoredFor(s)]_vars

(***************************************************************************)
(* C3. Two overlapping save-picks calls for the same (user, league, event) *)
(* that have both made all their insertions leave stored exactly the       *)
(* selections of one of them, never a mix.                                 *)
(***************************************************************************)
SameScope(s, t) ==
    /\ req[s].userId = req[t].userId
    /\ req[s].leagueId = req[t].leagueId
    /\ req[s].eventId = req[t].eventId

C3_ConcurrentSavesOneOfTwo ==
    \A s, t \in Slots :
        /\ s # t /\ LoopDone(s) /\ LoopDone(t) /\ SameScope(s, t)
        /\ req[s].picks # <<>> /\ req[t].picks # <<>>
        /\ req[s].errorCount = 0 /\ req[t].errorCount = 0
        => StoredFor(s) \in {Selected(req[s].picks), Selected(req[t].picks)}

(***************************************************************************)
(* C4. In every state and for every league, the leaderboard has exactly    *)
(* one row for each user holding a membership in the league, with or       *)
(* without picks, and no other row.                                        *)
(***************************************************************************)
Members(l) ==
    {u \in Users : \E m \in DOMAIN membership : m.UserID = u /\ m.LeagueID = l}

RowUsers(rows) == {rows[i].UserID : i \in DOMAIN rows}

C4_OneRowPerMember ==
    \A l \in LeagueIds :
        /\ RowUsers(Leaderboard(l)) = Members(l)
        /\ Len(Leaderboard(l)) = Cardinality(Members(l))

\* A league with two members and no pick: both are on its leaderboard.
C4_Witness ==
    \E l \in LeagueIds :
        /\ Cardinality(Members(l)) = 2
        /\ \A p \in DOMAIN pick : p.LeagueID # l
        /\ Len(Leaderboard(l)) = 2

(***************************************************************************)
(* C5. In every state, a member's TotalPoints on the leaderboard of a      *)
(* league is the sum of PointsEarned over the stored picks of that user in *)
(* that league, each pick counted once.                                    *)
(***************************************************************************)
PointsOf(u, l) ==
    SumPoints(BagFilter(pick, LAMBDA p : p.UserID = u /\ p.LeagueID = l))

C5_TotalIsSumOfPicks ==
    \A l \in LeagueIds :
        \A i \in DOMAIN Leaderboard(l) :
            Leaderboard(l)[i].TotalPoints = PointsOf(Leaderboard(l)[i].UserID, l)

(***************************************************************************)
(* C6. In every state there is at most one membership row per (user,       *)
(* league), whatever the interleaving of create-league and join-league.    *)
(***************************************************************************)
C6_OneMembershipPerPair ==
    \A u \in Users, l \in LeagueIds : BagCardinality(ExistingMembership(u, l)) <= 1

(***************************************************************************)
(* C7. With requests one at a time: delete-league for a league that has a  *)
(* membership or a pick is refused (as a conflict, or with the error of a  *)
(* failed query) and changes no table; for an existing league with neither *)
(* it removes the league row, and nothing else, and reports success,       *)
(* unless a statement fails, and then nothing changes.                     *)
(***************************************************************************)
DeleteAnswers(s) ==
    req[s].op = "deleteLeague" /\ req[s].pc # "done" /\ req'[s].pc = "done"

HasDependents(l) ==
    \/ \E m \in DOMAIN membership : m.LeagueID = l
    \/ \E p \in DOMAIN pick : p.LeagueID = l

ConflictResponses == {"HasMembers", "HasPicks"}

PersistenceErrors == {"Error500", "HasAssociated"}

TablesUnchanged == league' = league /\ membership' = membership /\ pick' = pick

C7_DeleteLeagueRefusedOrDone ==
    [][\A s \in Slots :
          DeleteAnswers(s) =>
            LET l == req[s].leagueId
                rows == {row \in league : row.LeagueID = l}
            IN  IF HasDependents(l)
                THEN /\ TablesUnchanged
                     /\ req'[s].resp \in ConflictResponses \cup PersistenceErrors
                ELSE IF rows # {}
                THEN \/ /\ req'[s].resp = "Success"
                        /\ league' = league \ rows
                        /\ membership' = membership /\ pick' = pick
                     \/ /\ req'[s].resp \in PersistenceErrors
                        /\ TablesUnchanged
                ELSE /\ TablesUnchanged
                     /\ req'[s].resp \in {"NotFound"} \cup PersistenceErrors]_vars

\* A league that was created is gone after a delete-league that reported success.
C7_Witness ==
    \E s \in Slots :
        /\ req[s].op = "deleteLeague" /\ req[s].pc = "done" /\ req[s].resp = "Success"
        /\ league = {} /\ nextLeagueId > 1

(***************************************************************************)
(* C8. Whenever no request is in flight, no connection of the pool is      *)
(* checked out: every handler has released the connection it acquired.     *)
(***************************************************************************)
C8_NoConnectionLeaked ==
    (\A s \in Slots : req[s].pc = "done") => checkedOut = 0

(***************************************************************************)
(* C9. A step of a save-picks call for (u, l, e) changes no league row, no *)
(* membership row and no pick row outside the scope (u, l, e).             *)
(***************************************************************************)
OutOfScope(p, u, l, e) == BagFilter(p, LAMBDA row : ~InScope(row, u, l, e))

C9_SavePicksFrame ==
    [][\A s \in Slots :
          SavingPicks(s) /\ req'[s] # req[s] =>
            /\ league' = league
            /\ membership' = membership
            /\ OutOfScope(pick', req[s].userId, req[s].leagueId, req[s].eventId)
                 = OutOfScope(pick, req[s].userId, req[s].leagueId, req[s].eventId)]_vars

\* A call has deleted and inserted in its scope while a pick of another scope is stored.
C9_Witness ==
    \E s \in Slots :
        /\ LoopDone(s) /\ req[s].savedCount > 0
        /\ OutOfScope(pick, req[s].userId, req[s].leagueId, req[s].eventId) # EmptyBag

(***************************************************************************)
(* C10. A save-picks call that has passed validation and run its delete    *)
(* and its loop answers AllPicksFailed exactly when it attempted at least  *)
(* one insertion and every attempted insertion failed; otherwise it        *)
(* answers success.                                                        *)
(***************************************************************************)
Attempted(pl) == Cardinality({i \in 1..Len(pl) : Truthy(pl[i])})

C10_FailureIffAllFailed ==
    [][\A s \in Slots :
          LoopDone(s) /\ req'[s].pc = "done" =>
            IF Attempted(req[s].picks) > 0 /\ req[s].errorCount = Attempted(req[s].picks)
            THEN req'[s].resp = "AllPicksFailed"
            ELSE req'[s].resp = "Success"]_vars

\* A call whose only insertion failed has been answered AllPicksFailed.
C10_Witness ==
    \E s \in Slots :
        req[s].op = "savePicks" /\ req[s].pc = "done" /\ req[s].resp = "AllPicksFailed"

(***************************************************************************)
(* C11. With requests one at a time, inside one save-picks call: every     *)
(* selection that names a fighter gets its own insertion attempt, whether  *)
(* or not an earlier one failed; an attempt that does not fail adds that   *)
(* selection's pick and one that fails adds nothing and leaves the loop    *)
(* running; the picks stored for the scope are as many as the insertions   *)
(* that succeeded; and the picksCount of the success response is that      *)
(* number.                                                                 *)
(***************************************************************************)
InLoop(s) == SavingPicks(s) /\ req[s].pc = "insertLoop" /\ req[s].idx <= Len(req[s].picks)

\* The number of pick rows stored in table p for the scope of the call in slot s.
StoredCount(p, s) ==
    BagCardinality(BagFilter(p, LAMBDA row :
        InScope(row, req[s].userId, req[s].leagueId, req[s].eventId)))

IterationIndependent(s) ==
    LET f == req[s].picks[req[s].idx]
        stored == Stored(pick', req[s].userId, req[s].leagueId, req[s].eventId)
    IN  /\ req'[s].pc = "insertLoop"
        /\ req'[s].idx = req[s].idx + 1
        /\ IF Truthy(f)
           THEN \/ /\ stored = StoredFor(s) (+) SetToBag({strFighterId(f)})
                   /\ req'[s].savedCount = req[s].savedCount + 1
                   /\ req'[s].errorCount = req[s].errorCount
                \/ /\ pick' = pick
                   /\ req'[s].savedCount = req[s].savedCount
                   /\ req'[s].errorCount = req[s].errorCount + 1
           ELSE /\ pick' = pick
                /\ req'[s].savedCount = req[s].savedCount
                /\ req'[s].errorCount = req[s].errorCount

C11_IndependentInsertions ==
    [][\A s \in Slots :
          /\ InLoop(s) /\ req'[s] # req[s] => IterationIndependent(s)
          /\ LoopDone(s) /\ req'[s].pc = "done" /\ req'[s].resp = "Success"
               => req'[s].picksCount = StoredCount(pick, s)]_vars

\* A call with two selections has stored the second after the insertion of the first
\* failed.
C11_Witness ==
    \E s \in Slots :
        /\ LoopDone(s) /\ req[s].picks = << <<"a">>, <<"b">> >>
        /\ req[s].errorCount = 1 /\ req[s].savedCount = 1
        /\ StoredFor(s) = SetToBag({<<"b">>})

(***************************************************************************)
(* C12. In every state, the fighter of each stored pick is the red or the  *)
(* blue corner of a fight of the pick's event.                             *)
(***************************************************************************)
Corners(row) == {row.red_fighter_id, row.blue_fighter_id}

FightsOfEvent(e) == {row \in fight : row.event_id = e}

C12_PickedFighterInEvent ==
    \A p \in DOMAIN pick :
        \E row \in FightsOfEvent(p.EventID) : p.FighterID \in Corners(row)

(***************************************************************************)
(* C13. With requests one at a time, in every state and for every user and *)
(* league, at most one stored pick names a corner of any one fight.        *)
(***************************************************************************)
PicksOnFight(u, l, row) ==
    BagCardinality(BagFilter(pick, LAMBDA p :
        /\ p.UserID = u /\ p.LeagueID = l /\ p.EventID = row.event_id
        /\ p.FighterID \in Corners(row)))

C13_OnePickPerFight ==
    \A u \in Users, l \in LeagueIds, row \in fight : PicksOnFight(u, l, row) <= 1

(***************************************************************************)
(* C14. Whenever no create-league call is in flight, each stored league    *)
(* has exactly one membership with role "Owner", and it is held by the     *)
(* league's owner.                                                         *)
(***************************************************************************)
OwnerRows(l) == BagFilter(membership, LAMBDA m : m.LeagueID = l /\ m.Role = "Owner")

CreatingLeague(s) == req[s].op = "createLeague" /\ req[s].pc # "done"

C14_OneOwnerMembership ==
    (\A s \in Slots : ~CreatingLeague(s)) =>
        \A row \in league :
            /\ BagCardinality(OwnerRows(row.LeagueID)) = 1
            /\ \A m \in DOMAIN OwnerRows(row.LeagueID) : m.UserID = row.OwnerID

(***************************************************************************)
(* C15. Every record of a fighter-history response is the record of one    *)
(* fight with a corner matched by the query, and its Result is relative to *)
(* a matched corner m of that fight: "Win" if the winner is m, "Loss" if   *)
(* another winner is recorded, the method if no winner is recorded and the *)
(* method is "Draw" or "No Contest", and "Pending" otherwise; m is the     *)
(* blue corner when only the blue corner is matched.                       *)
(***************************************************************************)
HistoryAnswers(s) ==
    /\ req[s].op = "fighterHistory" /\ req[s].pc \in {"findFighters", "queryFights"}
    /\ req'[s].pc = "done" /\ req'[s].resp = "Success"

Matched(s) == {f.fighter_id : f \in FindFighters(req[s].name)}

Involving(ids) == {row \in fight : Corners(row) \cap ids # {}}

ExpectedResult(row, m) ==
    IF row.winner_id = m THEN "Win"
    ELSE IF row.winner_id # Null THEN "Loss"
    ELSE IF row.method \in {"Draw", "No Contest"} THEN row.method
    ELSE "Pending"

C15_ResultRelativeToMatched ==
    [][\A s \in Slots :
          HistoryAnswers(s) =>
            \E rows \in Orderings(Involving(Matched(s))) :
                /\ Len(req'[s].data) = Len(rows)
                /\ \A i \in DOMAIN rows :
                     \E m \in Corners(rows[i]) \cap Matched(s) :
                         req'[s].data[i].Result = ExpectedResult(rows[i], m)]_vars

\* The query matched only the blue corner of the one fight, which that corner won.
C15_Witness ==
    \E s \in Slots, row \in fight :
        /\ req[s].op = "fighterHistory" /\ req[s].pc = "done" /\ req[s].resp = "Success"
        /\ fight = {row}
        /\ IdsOf(req[s].fighters) = {row.blue_fighter_id}
        /\ row.winner_id = row.blue_fighter_id
        /\ Len(req[s].data) = 1 /\ req[s].data[1].Result = "Win"

(***************************************************************************)
(* C16. Every record of an event-fights response has Result "Pending" when *)
(* its fight has no winner and a method that is not an outcome, "<name of  *)
(* the corner> Win" when the winner is one of the corners, and "Draw/No    *)
(* Contest" when a winner is recorded that is neither corner; and a fight  *)
(* without winner is reported "Pending" only if its method is not an       *)
(* outcome.                                                                *)
(***************************************************************************)
EventFightsAnswers(s) ==
    /\ req[s].op = "eventFights" /\ req[s].pc = "selectFighters"
    /\ req'[s].pc = "done" /\ req'[s].resp = "Success"

\* The methods that record the outcome of a fight that has no winner.
TerminalMethods == {"Draw", "No Contest"}

C16_EventFightResult ==
    [][\A s \in Slots :
          EventFightsAnswers(s) =>
            \A i \in DOMAIN req'[s].data :
                LET rec == req'[s].data[i]
                    row == CHOOSE r \in req[s].fights : r.fight_id = rec.FightID
                IN  /\ row.winner_id = Null /\ row.method \notin TerminalMethods
                        => rec.Result = Literal("Pending")
                    /\ row.winner_id = row.red_fighter_id
                        => rec.Result = Text(NameOf(row.red_fighter_id), " Win")
                    /\ row.winner_id = row.blue_fighter_id
                        => rec.Result = Text(NameOf(row.blue_fighter_id), " Win")
                    /\ row.winner_id # Null /\ row.winner_id \notin Corners(row)
                        => rec.Result = Literal("Draw/No Contest")
                    /\ rec.Result = Literal("Pending")
                        => row.winner_id = Null /\ row.method \notin TerminalMethods]_vars

(***************************************************************************)
(* C18. A fighter-history request whose statements do not fail is answered *)
(* with success and no record both when the query matches no fighter and   *)
(* when it matches fighters that have no fight, and the message the client *)
(* shows is "No fighters found" in the first case and another one in the   *)
(* second.                                                                 *)
(***************************************************************************)
HistoryReturns(s) ==
    /\ req[s].op = "fighterHistory" /\ req[s].pc \in {"findFighters", "queryFights"}
    /\ req'[s].pc = "done" /\ req'[s].resp # "Error500"

C18_EmptyHistoryNotAnError ==
    [][\A s \in Slots :
          HistoryReturns(s) /\ Involving(Matched(s)) = {} =>
            /\ req'[s].resp = "Success"
            /\ req'[s].data = <<>>
            /\ IF Matched(s) = {}
               THEN InfoMessage(req'[s].message) = "No fighters found"
               ELSE InfoMessage(req'[s].message) # "No fighters found"]_vars

\* A query that matched a fighter without fights has been answered with no record.
C18_Witness ==
    \E s \in Slots :
        /\ req[s].op = "fighterHistory" /\ req[s].pc = "done" /\ req[s].resp = "Success"
        /\ req[s].fighters # {} /\ req[s].data = <<>>
        /\ InfoMessage(req[s].message) = "No fight history found for this fighter."

(***************************************************************************)
(* C17. In every state and for every league, the rows of the leaderboard   *)
(* are in descending order of TotalPoints, rows with equal TotalPoints are *)
(* in ascending order of username, and the rank shown for a row is its     *)
(* 1-based position.                                                       *)
(***************************************************************************)
C17_LeaderboardOrder ==
    \A l \in LeagueIds :
        LET rows == Leaderboard(l)
        IN  /\ \A i, j \in DOMAIN rows :
                 i < j =>
                   \/ rows[i].TotalPoints > rows[j].TotalPoints
                   \/ /\ rows[i].TotalPoints = rows[j].TotalPoints
                      /\ UsernameRank(rows[i].UserID) <= UsernameRank(rows[j].UserID)
            /\ \A i \in DOMAIN rows : Rank(i - 1) = i

\* The member with the later username has more points and is ranked first.
C17_Witness ==
    \E l \in LeagueIds :
        LET rows == Leaderboard(l)
        IN  /\ Len(rows) = 2
            /\ rows[1].TotalPoints > rows[2].TotalPoints
            /\ UsernameRank(rows[1].UserID) > UsernameRank(rows[2].UserID)

(***************************************************************************)
(* C19. Every request that is in flight is eventually answered: none       *)
(* waits forever for a connection of the pool.                             *)
(***************************************************************************)
C19_EveryRequestAnswered ==
    \A s \in Slots : (req[s].pc # "done") ~> (req[s].pc = "done")

(***************************************************************************)
(* C20. When two overlapping save-picks calls for the same (user, league,  *)
(* event) have both made all their insertions without a failure, the       *)
(* stored picks of the scope contain every selection of the call whose     *)
(* delete ran last and nothing outside the two calls' selections.          *)
(***************************************************************************)
C20_LastDeleterKept ==
    \A s, t \in Slots :
        /\ s # t /\ LoopDone(s) /\ LoopDone(t) /\ SameScope(s, t)
        /\ req[s].errorCount = 0 /\ req[t].errorCount = 0
        /\ req[s].deleteSeq > req[t].deleteSeq
        => /\ Selected(req[s].picks) \sqsubseteq StoredFor(s)
           /\ StoredFor(s) \sqsubseteq Selected(req[s].picks) (+) Selected(req[t].picks)

\* Both calls are done and the scope holds a fighter only the one call selected and a
\* fighter only the other selected.
C20_Witness ==
    \E s, t \in Slots :
        /\ s # t /\ LoopDone(s) /\ LoopDone(t) /\ SameScope(s, t)
        /\ req[s].errorCount = 0 /\ req[t].errorCount = 0
        /\ req[s].deleteSeq > req[t].deleteSeq
        /\ \E f \in DOMAIN StoredFor(s) : f \notin DOMAIN Selected(req[s].picks)
        /\ \E f \in DOMAIN StoredFor(s) : f \notin DOMAIN Selected(req[t].picks)

(***************************************************************************)
(* C21. In every state, no stored membership and no stored pick references *)
(* a league that was stored and has been deleted.                          *)
(***************************************************************************)
\* League ids are handed out in order, once each: an id below the counter that no
\* stored league has is the id of a deleted league.
Deleted(l) == l < nextLeagueId /\ \A row \in league : row.LeagueID # l

OtherCorner(row, m) ==
    IF m = row.red_fighter_id THEN row.blue_fighter_id ELSE row.red_fighter_id

C22_OpponentIsOtherCorner ==
    [][\A s \in Slots :
          HistoryAnswers(s) =>
            \E rows \in Orderings(Involving(Matched(s))) :
                /\ Len(req'[s].data) = Len(rows)
                /\ \A i \in DOMAIN rows :
                     /\ req'[s].data[i].EventName = EventName(rows[i].event_id)
                     /\ \E m \in Corners(rows[i]) \cap Matched(s) :
                          req'[s].data[i].Opponent = NameOf(OtherCorner(rows[i], m))]_vars

\* The one matched fighter is the blue corner of the later fight and the red corner of
\* the earlier: the two records name the red corner of the one and the blue of the other.
C22_Witness ==
    \E s \in Slots :
        /\ req[s].op = "fighterHistory" /\ req[s].pc = "done" /\ req[s].resp = "Success"
        /\ fight = RematchFights
        /\ IdsOf(req[s].fighters) = {<<"a">>}
        /\ Len(req[s].data) = 2
        /\ req[s].data[1].Opponent = NameOf(<<"c">>)
        /\ req[s].data[2].Opponent = NameOf(<<"b">>)

(***************************************************************************)
(* C30. A fighter-history response has exactly one record for each fight   *)
(* with a matched corner, and the record of a fight whose two corners are  *)
(* both matched is the red corner's: Opponent is the blue corner's name    *)
(* and Result is relative to the red corner.                               *)
(***************************************************************************)
C30_OneRecordRedPerspective ==
    [][\A s \in Slots :
          HistoryAnswers(s) =>
            \E rows \in Orderings(Involving(Matched(s))) :
                /\ Len(req'[s].data) = Cardinality(Involving(Matched(s)))
                /\ \A i \in DOMAIN rows :
                     /\ req'[s].data[i].EventName = EventName(rows[i].event_id)
                     /\ req'[s].data[i].Method = rows[i].method
                     /\ Corners(rows[i]) \subseteq Matched(s) =>
                          /\ req'[s].data[i].Opponent = NameOf(rows[i].blue_fighter_id)
                          /\ req'[s].data[i].Result
                               = ExpectedResult(rows[i], rows[i].red_fighter_id)]_vars

\* The query matched both corners of the one fight, which the blue corner won: the
\* single record is a loss against the blue corner.
C30_Witness ==
    \E s \in Slots, row \in fight :
        /\ req[s].op = "fighterHistory" /\ req[s].pc = "done" /\ req[s].resp = "Success"
        /\ fight = {row}
        /\ Corners(row) \subseteq IdsOf(req[s].fighters)
        /\ row.winner_id = row.blue_fighter_id
        /\ Len(req[s].data) = 1
        /\ req[s].data[1].Result = "Loss"
        /\ req[s].data[1].Opponent = NameOf(row.blue_fighter_id)

(***************************************************************************)
(* C23. Every step of a handler leaves the pick table as it is, or is a    *)
(* step of a save-picks call that inserts one row of its (user, league,    *)
(* event) with PointsEarned 0, or removes exactly the rows of its (user,   *)
(* league, event): no handler changes a field of a stored pick, and none   *)
(* but save-picks for its triple removes one.                              *)
(***************************************************************************)
HandlerStep == req' # req

C23_PickTransitions ==
    [][HandlerStep =>
         \/ pick' = pick
         \/ \E s \in Slots :
              /\ SavingPicks(s) /\ req'[s] # req[s]
              /\ \/ \E row \in DOMAIN pick' :
                       /\ InScope(row, req[s].userId, req[s].leagueId, req[s].eventId)
                       /\ row.PointsEarned = 0
                       /\ pick' = pick (+) SetToBag({row})
                 \/ pick' = OutOfScope(pick, req[s].userId, req[s].leagueId,
                                       req[s].eventId)]_vars

\* A pick was stored, removed by a later call for its triple, and a pick stored again.
C23_Witness ==
    \E s \in Slots :
        /\ SavingPicks(s) /\ req[s].pc = "insertLoop"
        /\ req[s].affectedRows >= 1 /\ req[s].savedCount >= 1
        /\ \A row \in DOMAIN pick : row.PointsEarned = 0

(***************************************************************************)
(* C24. With requests one at a time, when a save-picks call answers that   *)
(* all picks failed, no pick is stored for its (user, league, event): the  *)
(* picks stored before the call are gone.                                  *)
(***************************************************************************)
SavePicksAnswers(s) == LoopDone(s) /\ req'[s].pc = "done"

C24_FailedCallLeavesNoPick ==
    [][\A s \in Slots :
          SavePicksAnswers(s) /\ req'[s].resp = "AllPicksFailed" =>
            StoredCount(pick', s) = 0]_vars

\* A call whose every insertion failed is about to answer; its delete removed a pick.
C24_Witness ==
    \E s \in Slots :
        /\ LoopDone(s) /\ req[s].savedCount = 0 /\ req[s].errorCount > 0
        /\ req[s].affectedRows > 0
        /\ StoredCount(pick, s) = 0

(***************************************************************************)
(* C25. With requests one at a time: the iteration over a selection        *)
(* without fighterId stores nothing and counts neither a saved nor a       *)
(* failed pick; and a call whose list is not empty and holds only such     *)
(* selections answers success with picksCount 0 and leaves no pick stored  *)
(* for its (user, league, event).                                          *)
(***************************************************************************)
NoFighterId(selection) == selection = <<>>

OnlyEmptySelections(pl) == pl # <<>> /\ \A i \in DOMAIN pl : NoFighterId(pl[i])

C25_SelectionWithoutFighterSkipped ==
    [][\A s \in Slots :
          /\ InLoop(s) /\ NoFighterId(req[s].picks[req[s].idx]) /\ req'[s] # req[s]
               => /\ pick' = pick
                  /\ req'[s].savedCount = req[s].savedCount
                  /\ req'[s].errorCount = req[s].errorCount
                  /\ req'[s].idx = req[s].idx + 1
          /\ SavePicksAnswers(s) /\ OnlyEmptySelections(req[s].picks)
               => /\ req'[s].resp = "Success"
                  /\ req'[s].picksCount = 0
                  /\ StoredCount(pick', s) = 0]_vars

\* A call with one selection, which has no fighterId, has removed a stored pick and is
\* about to answer.
C25_Witness ==
    \E s \in Slots :
        /\ LoopDone(s) /\ OnlyEmptySelections(req[s].picks)
        /\ req[s].affectedRows > 0
        /\ req[s].savedCount = 0 /\ req[s].errorCount = 0
        /\ StoredCount(pick, s) = 0

(***************************************************************************)
(* C26. With requests one at a time, once a save-picks call has run its    *)
(* delete, every pick stored for its (user, league, event) has             *)
(* PointsEarned 0, whatever points the picks it replaced had.              *)
(***************************************************************************)
C26_ResubmissionResetsPoints ==
    \A s \in Slots :
        SavingPicks(s) /\ req[s].pc = "insertLoop" =>
            \A row \in DOMAIN pick :
                InScope(row, req[s].userId, req[s].leagueId, req[s].eventId)
                => row.PointsEarned = 0

\* A league was created, a pick of its owner stored and graded with a point, and a
\* second call for the same triple has replaced it: the owner's total is 0 again.
C26_Witness ==
    \E s \in Slots :
        /\ LoopDone(s) /\ req[s].affectedRows = 1 /\ req[s].savedCount = 1
        /\ calls.total = 4 /\ calls.of["grade"] = 1 /\ calls.of["createLeague"] = 1
        /\ \E row \in league : row.LeagueID = req[s].leagueId /\ row.OwnerID = req[s].userId
        /\ Len(Leaderboard(req[s].leagueId)) = 1
        /\ Leaderboard(req[s].leagueId)[1].UserID = req[s].userId
        /\ Leaderboard(req[s].leagueId)[1].TotalPoints = 0
        /\ \A row \in DOMAIN pick : row.PointsEarned = 0

(***************************************************************************)
(* C27. In every state, the user of every stored pick holds a membership   *)
(* in the pick's league.                                                   *)
(***************************************************************************)
C27_PicksBelongToMembers ==
    \A p \in DOMAIN pick : p.UserID \in Members(p.LeagueID)

(***************************************************************************)
(* C28. When a create-league call answers with an error, no league row     *)
(* that the call inserted is stored.                                       *)
(***************************************************************************)
C28_FailedCreateLeavesNoLeague ==
    [][\A s \in Slots :
          CreatingLeague(s) /\ req'[s].pc = "done" /\ req'[s].resp # "Success" =>
            \A row \in league' : row.LeagueID # req[s].foundLeague]_vars

(***************************************************************************)
(* C29. In every state and for every league, the league-members result and *)
(* the leaderboard have the same users with the same TotalPoints in the    *)
(* same order, one row per member.                                         *)
(***************************************************************************)
UsersAndPoints(rows) == [i \in DOMAIN rows |-> <<rows[i].UserID, rows[i].TotalPoints>>]

C29_MembersAgreeWithLeaderboard ==
    \A l \in LeagueIds :
        \A members \in LeagueMembers(l) :
            UsersAndPoints(members) = UsersAndPoints(Leaderboard(l))

====
